---- MODULE Spec2Model ----
(***************************************************************************)
(* Execution routing layer of mindsdb: the ML client factory               *)
(* (handlers_client/ml_client_factory.py), the JSON codecs                 *)
(* (utilities/json_encoder.py) and the HTTP predict endpoint               *)
(* (api/http/namespaces/projects.py).                                      *)
(*                                                                         *)
(* Python values are tagged records so that values of different Python     *)
(* types are unequal: Str(s), Integer(i), None.  A Python dict is a function   *)
(* from its keys; the empty dict is the function with the empty domain.    *)
(* A call's outcome is Return(v) or Raise(e).                              *)
(***************************************************************************)
EXTENDS Integers, Sequences, FiniteSets, TLC

VARIABLES environ, registry, factory, arg, result, earlier

vars == <<environ, registry, factory, arg, result, earlier>>

----------------------------------------------------------------------------
(* Bounds *)

\* longest candidate list the registry returns for one engine
MaxCandidates == 2
\* longest byte sequence handed to the binary transport codec
MaxBytes == 3
\* longest array or list handed to the general codec
MaxItems == 2
\* longest model name in a predict request
MaxNameLen == 3

----------------------------------------------------------------------------
(* Python values *)

None == [t |-> "None"]
Str(s) == [t |-> "str", s |-> s]
Integer(i) == [t |-> "int", i |-> i]

EmptyDict == [k \in {} |-> None]
Truthy(d) == DOMAIN d # {}

Return(v) == [exc |-> "", value |-> v]
Raise(e) == [exc |-> e]

\* kwargs[key] = value
SetItem(kwargs, key, value) ==
    [k \in DOMAIN kwargs \cup {key} |-> IF k = key THEN value ELSE kwargs[k]]
\* del kwargs[key]
DelItem(kwargs, key) ==
    [k \in DOMAIN kwargs \ {key} |-> kwargs[k]]

\* all sequences over S of length 0..n
RECURSIVE SeqsUpTo(_, _)
SeqsUpTo(S, n) ==
    IF n = 0 THEN {<<>>}
    ELSE LET shorter == SeqsUpTo(S, n - 1)
         IN  shorter \cup {Append(q, x) : q \in {r \in shorter : Len(r) = n - 1}, x \in S}

----------------------------------------------------------------------------
(* The world the factory runs in *)

Engines == {"TPOT", "ghost"}

\* a local implementation: the class's __name__, __module__ and declared name
TPOTHandler ==
    [__name__ |-> "TPOTHandler",
     __module__ |-> "mindsdb.integrations.handlers.tpot_handler.tpot_handler",
     name |-> "TPOT"]
\* what a caller holds for an engine that has no local implementation
NoClass == [__name__ |-> "NoneType"]

\* the remote proxy class the factory is wired to
MLClientGRPC ==
    [__name__ |-> "MLClientGRPC",
     __module__ |-> "mindsdb.integrations.handlers_client.ml_grpc_client"]

\* EngineRegistration: engine name -> local implementation, if any
EngineRegistration(engine) ==
    IF engine = TPOTHandler.name THEN TPOTHandler ELSE NoClass

\* candidate endpoints a registry may list
Endpoints ==
    {[host |-> Str("10.0.0.5"), port |-> Integer(9000)],
     [host |-> Str("10.0.0.6"), port |-> Integer(9001)]}

\* the candidate lists a registry may hold for one engine
CandidateLists == SeqsUpTo(Endpoints, MaxCandidates)

EnvValues ==
    [REGISTRY_URL |-> {"", "http://registry:8000"},
     MINDSDB_ML_SERVICE_HOST |-> {"10.0.0.9"},
     MINDSDB_ML_SERVICE_PORT |-> {"9009"}]
EnvNames == DOMAIN EnvValues

\* os.environ.get(key, default)
os_environ_get(key, default) ==
    IF key \in DOMAIN environ THEN Str(environ[key]) ELSE default

EngineStorages == {[integration_id |-> 1], [integration_id |-> 2]}
ModelStorages == {[predictor_id |-> 7], [predictor_id |-> 8]}
\* extra keyword arguments of a dispatch call
Kwargs ==
    {EmptyDict, [k \in {"engine"} |-> Str("spoofed")], [k \in {"verbose"} |-> Str("yes")]}

NoFactory == [engine |-> ""]
NoArg == [fn |-> "none"]
NoResult == [op |-> "none"]
RegistryDown == [up |-> FALSE, body |-> EmptyDict]

----------------------------------------------------------------------------
(* handler_helpers.discover_services: GET the url and parse the JSON body; *)
(* a failed request is swallowed and yields the empty dict                 *)

discover_services(discover_url) ==
    IF registry.up THEN registry.body ELSE EmptyDict

(* MLClientFactory.discover_service; the outcome also lists the lookup     *)
(* requests that were issued                                               *)

Issued(out, requests) == SetItem(out, "requests", requests)

discover_service_unguarded(engine) ==
    LET discover_url == os_environ_get("REGISTRY_URL", None)
    IN  IF discover_url = None \/ discover_url = Str("")
        THEN Issued(Return(EmptyDict), <<>>)
        ELSE LET url == <<discover_url.s, "/discover">>
                 res == discover_services(url)
             IN  IF engine \notin DOMAIN res THEN Issued(Raise("KeyError"), <<url>>)
                 ELSE IF Len(res[engine]) = 0 THEN Issued(Raise("IndexError"), <<url>>)
                 ELSE Issued(Return(res[engine][1]), <<url>>)

discover_service_always_asks(engine) ==
    LET url == <<"None", "/discover">>
        res == discover_services(url)
    IN  IF ~Truthy(res) THEN Issued(Return(EmptyDict), <<url>>)
        ELSE IF engine \notin DOMAIN res THEN Issued(Raise("KeyError"), <<url>>)
        ELSE IF Len(res[engine]) = 0 THEN Issued(Raise("IndexError"), <<url>>)
        ELSE Issued(Return(res[engine][1]), <<url>>)

discover_service(engine) ==
    LET discover_url == os_environ_get("REGISTRY_URL", None)
    IN  IF discover_url = None \/ discover_url = Str("")
        THEN Issued(Return(EmptyDict), <<>>)
        ELSE LET url == <<discover_url.s, "/discover">>
                 res == discover_services(url)
             IN  IF ~Truthy(res) THEN Issued(Return(EmptyDict), <<url>>)
                 ELSE IF engine \notin DOMAIN res THEN Issued(Raise("KeyError"), <<url>>)
                 ELSE IF Len(res[engine]) = 0 THEN Issued(Raise("IndexError"), <<url>>)
                 ELSE Issued(Return(res[engine][1]), <<url>>)

----------------------------------------------------------------------------
(* MLClientFactory.__init__ *)

MLClientFactory_init_client_identity(handler_class, engine) ==
    IF handler_class = NoClass
    THEN Raise("AttributeError")
    ELSE Return([engine |-> engine,
                 client_class |-> MLClientGRPC,
                 handler_class |-> handler_class,
                 __name__ |-> MLClientGRPC.__name__,
                 __module__ |-> MLClientGRPC.__module__])

MLClientFactory_init(handler_class, engine) ==
    IF handler_class = NoClass
    THEN Raise("AttributeError")
    ELSE Return([engine |-> engine,
                 client_class |-> MLClientGRPC,
                 handler_class |-> handler_class,
                 __name__ |-> handler_class.__name__,
                 __module__ |-> handler_class.__module__])

\* handler_class(engine_storage=..., model_storage=..., **kwargs)
LocalInstance(cls, engine_storage, model_storage, kwargs) ==
    [kind |-> "local", class |-> cls,
     engine_storage |-> engine_storage, model_storage |-> model_storage,
     kwargs |-> kwargs]

\* client_class(host, port, integration_id=..., predictor_id=..., **kwargs)
RemoteProxy(cls, host, port, integration_id, predictor_id, kwargs) ==
    [kind |-> "proxy", class |-> cls, host |-> host, port |-> port,
     integration_id |-> integration_id, predictor_id |-> predictor_id,
     kwargs |-> kwargs]

(* MLClientFactory.__call__ *)

MLClientFactory_call_local_only_if_both_missing(self, engine_storage, model_storage, kwargs) ==
    LET found == discover_service(self.engine)
    IN  IF found.exc # "" THEN found
        ELSE
        LET service_info == found.value
            host == IF Truthy(service_info) THEN service_info["host"]
                    ELSE os_environ_get("MINDSDB_ML_SERVICE_HOST", None)
            port == IF Truthy(service_info) THEN service_info["port"]
                    ELSE os_environ_get("MINDSDB_ML_SERVICE_PORT", None)
        IN  IF host = None /\ port = None
            THEN Issued(Return(LocalInstance(self.handler_class, engine_storage,
                                             model_storage, kwargs)),
                        found.requests)
            ELSE Issued(Return(RemoteProxy(self.client_class, host, port,
                                           engine_storage.integration_id,
                                           model_storage.predictor_id,
                                           SetItem(kwargs, "engine", Str(self.engine)))),
                        found.requests)

MLClientFactory_call_keeps_caller_engine(self, engine_storage, model_storage, kwargs) ==
    LET found == discover_service(self.engine)
    IN  IF found.exc # "" THEN found
        ELSE
        LET service_info == found.value
            host == IF Truthy(service_info) THEN service_info["host"]
                    ELSE os_environ_get("MINDSDB_ML_SERVICE_HOST", None)
            port == IF Truthy(service_info) THEN service_info["port"]
                    ELSE os_environ_get("MINDSDB_ML_SERVICE_PORT", None)
        IN  IF host = None \/ port = None
            THEN Issued(Return(LocalInstance(self.handler_class, engine_storage,
                                             model_storage, kwargs)),
                        found.requests)
            ELSE Issued(Return(RemoteProxy(self.client_class, host, port,
                                           engine_storage.integration_id,
                                           model_storage.predictor_id,
                                           IF "engine" \in DOMAIN kwargs THEN kwargs
                                           ELSE SetItem(kwargs, "engine", Str(self.engine)))),
                        found.requests)

MLClientFactory_call_fallback_first(self, engine_storage, model_storage, kwargs) ==
    LET found == discover_service(self.engine)
    IN  IF found.exc # "" THEN found
        ELSE
        LET service_info == found.value
            env_host == os_environ_get("MINDSDB_ML_SERVICE_HOST", None)
            env_port == os_environ_get("MINDSDB_ML_SERVICE_PORT", None)
            host == IF env_host = None /\ Truthy(service_info)
                    THEN service_info["host"] ELSE env_host
            port == IF env_port = None /\ Truthy(service_info)
                    THEN service_info["port"] ELSE env_port
        IN  IF host = None \/ port = None
            THEN Issued(Return(LocalInstance(self.handler_class, engine_storage,
                                             model_storage, kwargs)),
                        found.requests)
            ELSE Issued(Return(RemoteProxy(self.client_class, host, port,
                                           engine_storage.integration_id,
                                           model_storage.predictor_id,
                                           SetItem(kwargs, "engine", Str(self.engine)))),
                        found.requests)

MLClientFactory_call(self, engine_storage, model_storage, kwargs) ==
    LET found == discover_service(self.engine)
    IN  IF found.exc # "" THEN found
        ELSE
        LET service_info == found.value
            host == IF Truthy(service_info) THEN service_info["host"]
                    ELSE os_environ_get("MINDSDB_ML_SERVICE_HOST", None)
            port == IF Truthy(service_info) THEN service_info["port"]
                    ELSE os_environ_get("MINDSDB_ML_SERVICE_PORT", None)
        IN  IF host = None \/ port = None
            THEN Issued(Return(LocalInstance(self.handler_class, engine_storage,
                                             model_storage, kwargs)),
                        found.requests)
            ELSE Issued(Return(RemoteProxy(self.client_class, host, port,
                                           engine_storage.integration_id,
                                           model_storage.predictor_id,
                                           SetItem(kwargs, "engine", Str(self.engine)))),
                        found.requests)

----------------------------------------------------------------------------
(* The routing layer as a state machine.  result is what the latest call   *)
(* handed back; it is consumed when the configuration changes, and earlier *)
(* then remembers where the dispatch it superseded had been routed.        *)

NoEarlier == [kind |-> "none"]

\* where an outcome of __call__ was routed
Route(out) ==
    IF out.exc # "" THEN [kind |-> "raised"]
    ELSE IF out.value.kind = "local" THEN [kind |-> "local"]
    ELSE [kind |-> "proxy", host |-> out.value.host, port |-> out.value.port]

Superseded == IF result.op = "__call__" THEN Route(result.out) ELSE earlier

Init ==
    /\ environ = EmptyDict
    /\ registry = RegistryDown
    /\ factory = NoFactory
    /\ arg = NoArg
    /\ result = NoResult
    /\ earlier = NoEarlier

\* the operator exports one environment variable
SetEnv ==
    /\ \E k \in EnvNames : \E v \in EnvValues[k] :
          /\ ~(k \in DOMAIN environ /\ environ[k] = v)
          /\ environ' = SetItem(environ, k, v)
    /\ result' = NoResult
    /\ earlier' = Superseded
    /\ UNCHANGED <<registry, factory, arg>>

\* the operator unsets one environment variable
UnsetEnv ==
    /\ \E k \in DOMAIN environ : environ' = DelItem(environ, k)
    /\ result' = NoResult
    /\ earlier' = Superseded
    /\ UNCHANGED <<registry, factory, arg>>

\* the registry service becomes unreachable
RegistryFails ==
    /\ registry.up
    /\ registry' = RegistryDown
    /\ result' = NoResult
    /\ earlier' = Superseded
    /\ UNCHANGED <<environ, factory, arg>>

\* the registry service comes up with nothing listed
RegistryStarts ==
    /\ ~registry.up
    /\ registry' = [up |-> TRUE, body |-> EmptyDict]
    /\ result' = NoResult
    /\ earlier' = Superseded
    /\ UNCHANGED <<environ, factory, arg>>

\* a service (de)registers: the list of one engine changes
RegistryLists ==
    /\ registry.up
    /\ \E e \in Engines : \E l \in CandidateLists :
          /\ ~(e \in DOMAIN registry.body /\ registry.body[e] = l)
          /\ registry' = [up |-> TRUE, body |-> SetItem(registry.body, e, l)]
    /\ result' = NoResult
    /\ earlier' = Superseded
    /\ UNCHANGED <<environ, factory, arg>>

\* the registry forgets an engine altogether
RegistryDrops ==
    /\ registry.up
    /\ \E e \in DOMAIN registry.body :
          registry' = [up |-> TRUE, body |-> DelItem(registry.body, e)]
    /\ result' = NoResult
    /\ earlier' = Superseded
    /\ UNCHANGED <<environ, factory, arg>>

\* process start: the caller looks the engine up and wraps it in a factory
Construct ==
    /\ \E engine \in Engines :
          LET made == MLClientFactory_init(EngineRegistration(engine), engine)
          IN  /\ factory' = IF made.exc = "" THEN made.value ELSE factory
              /\ result' = [op |-> "__init__", engine |-> engine, out |-> made]
    /\ UNCHANGED <<environ, registry, arg, earlier>>

\* a caller asks the factory where an engine is served
Discover ==
    /\ factory # NoFactory
    /\ \E engine \in Engines :
          result' = [op |-> "discover_service", engine |-> engine,
                     out |-> discover_service(engine)]
    /\ UNCHANGED <<environ, registry, factory, arg, earlier>>

\* a caller asks the factory for a handler
Call_remembering_endpoint ==
    /\ factory # NoFactory
    /\ \E engine_storage \in EngineStorages, model_storage \in ModelStorages,
          kwargs \in Kwargs :
          LET fresh == MLClientFactory_call(factory, engine_storage,
                                            model_storage, kwargs)
              out == IF "endpoint" \in DOMAIN factory
                     THEN Issued(Return(RemoteProxy(factory.client_class,
                                                    factory.endpoint.host,
                                                    factory.endpoint.port,
                                                    engine_storage.integration_id,
                                                    model_storage.predictor_id,
                                                    SetItem(kwargs, "engine",
                                                            Str(factory.engine)))),
                                 <<>>)
                     ELSE fresh
          IN  /\ result' = [op |-> "__call__",
                            engine |-> factory.engine,
                            engine_storage |-> engine_storage,
                            model_storage |-> model_storage,
                            kwargs |-> kwargs,
                            out |-> out]
              /\ factory' = IF out.exc = "" /\ out.value.kind = "proxy"
                            THEN SetItem(factory, "endpoint",
                                         [host |-> out.value.host,
                                          port |-> out.value.port])
                            ELSE factory
    /\ UNCHANGED <<environ, registry, arg, earlier>>

Call ==
    /\ factory # NoFactory
    /\ \E engine_storage \in EngineStorages, model_storage \in ModelStorages,
          kwargs \in Kwargs :
          result' = [op |-> "__call__",
                     engine |-> factory.engine,
                     engine_storage |-> engine_storage,
                     model_storage |-> model_storage,
                     kwargs |-> kwargs,
                     out |-> MLClientFactory_call(factory, engine_storage,
                                                  model_storage, kwargs)]
    /\ UNCHANGED <<environ, registry, factory, arg, earlier>>

Next ==
    \/ SetEnv
    \/ UnsetEnv
    \/ RegistryFails
    \/ RegistryStarts
    \/ RegistryLists
    \/ RegistryDrops
    \/ Construct
    \/ Discover
    \/ Call

Spec == Init /\ [][Next]_vars

----------------------------------------------------------------------------
(* utilities/json_encoder.py.  A Python str is the sequence of its         *)
(* characters; floats are carried in thousandths.                          *)

DigitChars == <<"0", "1", "2", "3", "4", "5", "6", "7", "8", "9">>

\* str(n) for an int n >= 0
RECURSIVE Digits(_)
Digits(n) ==
    IF n < 10 THEN <<DigitChars[n + 1]>>
    ELSE Append(Digits(n \div 10), DigitChars[(n % 10) + 1])

\* str(n) for any int
IntStr(n) == IF n < 0 THEN <<"-">> \o Digits(0 - n) ELSE Digits(n)

\* "%0<width>d" % n
RECURSIVE Pad(_, _)
Pad(n, width) ==
    IF Len(Digits(n)) >= width THEN Digits(n)
    ELSE <<"0">> \o Pad(n, width - 1) 

JsonNull == [j |-> "null"]
JsonString(chars) == [j |-> "string", chars |-> chars]
JsonBool(b) == [j |-> "boolean", b |-> b]
JsonInt(i) == [j |-> "integer", i |-> i]
JsonFloat(milli) == [j |-> "number", milli |-> milli]

SignedInts == {"np.int8", "np.int16", "np.int32", "np.int64"}
UnsignedInts == {"np.uint8", "np.uint16", "np.uint32", "np.uint64"}
Floats == {"np.float16", "np.float32", "np.float64", "Decimal"}

\* values an integer wrapper of each type is sampled at
IntSamples(t) ==
    CASE t = "np.int8" -> {-128, -1, 0, 127}
      [] t = "np.int16" -> {-32768, 0, 32767}
      [] t = "np.int32" -> {-2147483647, 0, 2147483647}
      [] t = "np.int64" -> {-2147483647, 0, 2147483647}
      [] t = "np.uint8" -> {0, 5, 255}
      [] t = "np.uint16" -> {0, 65535}
      [] t = "np.uint32" -> {0, 2147483647}
      [] t = "np.uint64" -> {0, 2147483647}

NaN == [t |-> "float", nan |-> TRUE, milli |-> 0]
Items == {[t |-> "int", i |-> 1], NaN}

Datetimes ==
    {[t |-> "datetime", year |-> y, month |-> 5, day |-> 1,
      hour |-> h, minute |-> 3 * h, second |-> 0, microsecond |-> us] :
        y \in {999, 2023}, h \in {0, 10}, us \in {0, 42, 123456}}
Dates ==
    {[t |-> "date", year |-> 2023, month |-> 5, day |-> 1],
     [t |-> "date", year |-> 1999, month |-> 12, day |-> 31],
     [t |-> "date", year |-> 999, month |-> 1, day |-> 1]}
Timedeltas ==
    {[t |-> "timedelta", days |-> d, seconds |-> sec, microseconds |-> us] :
        d \in {0, 1, 2}, sec \in {0, 3661}, us \in {0, 5}}

\* objects handed to CustomJSONEncoder.default
DefaultInputs ==
         {[t |-> "NoneType"], [t |-> "NaTType"], NaN}
    \cup [t : Floats, nan : {FALSE}, milli : {-1500, 0, 250}]
    \cup [t : Floats, nan : {TRUE}, milli : {0}]
    \cup Timedeltas \cup Datetimes \cup Dates
    \cup [t : {"np.bool_"}, b : BOOLEAN]
    \cup UNION {[t : {ty}, i : IntSamples(ty)] : ty \in SignedInts \cup UnsignedInts}
    \cup [t : {"np.ndarray", "list"}, items : SeqsUpTo(Items, MaxItems)]
    \cup [t : {"str"}, chars : {<<>>, <<"a", "b">>}]

\* pandas.isnull: a bool for a scalar, an array of bools for an array-like
pd_isnull(obj) ==
    IF obj.t \in {"np.ndarray", "list"}
    THEN [t |-> "np.ndarray",
          items |-> [n \in DOMAIN obj.items |-> obj.items[n] = NaN]]
    ELSE [t |-> "bool",
          b |-> \/ obj.t \in {"NoneType", "NaTType"}
                \/ obj.t \in Floats \cup {"float"} /\ obj.nan]

\* the truth value an if statement takes from pd.isnull's result: numpy
\* refuses arrays of two or more elements; an empty array counts as False
\* (with a deprecation warning in the numpy releases of the source's time)
Truth(v) ==
    IF v.t = "bool" THEN Return(v.b)
    ELSE IF Len(v.items) = 0 THEN Return(FALSE)
    ELSE IF Len(v.items) = 1 THEN Return(v.items[1])
    ELSE Raise("ValueError")

\* str(timedelta): "[D day[s], ]H:MM:SS[.ffffff]"
timedelta_str(obj) ==
    LET plural == IF obj.days # 1 THEN <<"s">> ELSE <<>>
        days == IF obj.days # 0
                THEN IntStr(obj.days) \o <<" ", "d", "a", "y">> \o plural \o <<",", " ">>
                ELSE <<>>
        hh == obj.seconds \div 3600
        mm == (obj.seconds % 3600) \div 60
        ss == obj.seconds % 60
        frac == IF obj.microseconds # 0
                THEN <<".">> \o Pad(obj.microseconds, 6)
                ELSE <<>>
    IN  days \o Digits(hh) \o <<":">> \o Pad(mm, 2) \o <<":">> \o Pad(ss, 2) \o frac

\* the C library under the interpreter, whose strftime does the formatting
CLibraries == {"glibc", "zero-padding"}

\* %Y: glibc prints the year as it is, other C libraries pad it to 4 digits
strftime_Y(year) ==
    IF arg.libc = "glibc" THEN Digits(year) ELSE Pad(year, 4)

\* strftime("%Y-%m-%d")
strftime_date(obj) ==
    strftime_Y(obj.year) \o <<"-">> \o Pad(obj.month, 2) \o <<"-">> \o Pad(obj.day, 2)

\* strftime("%Y-%m-%d %H:%M:%S.%f")
strftime_datetime(obj) ==
    strftime_date(obj) \o <<" ">> \o Pad(obj.hour, 2) \o <<":">>
        \o Pad(obj.minute, 2) \o <<":">> \o Pad(obj.second, 2) \o <<".">>
        \o Pad(obj.microsecond, 6)

\* str(obj) of the objects that reach the last line of default
py_str(obj) ==
    CASE obj.t \in UnsignedInts -> IntStr(obj.i)
      [] obj.t = "str" -> obj.chars
      [] obj.t \in {"np.ndarray", "list"} ->
           IF Len(obj.items) = 0 THEN <<"[", "]">>
           ELSE <<"[">> \o IntStr(obj.items[1].i) \o <<"]">>
      [] OTHER -> <<"<", "o", "b", "j", "e", "c", "t", ">">>

(* CustomJSONEncoder.default *)

CustomJSONEncoder_default(obj) ==
    LET null == Truth(pd_isnull(obj))
    IN  IF null.exc # "" THEN null
        ELSE IF null.value THEN Return(JsonNull)
        ELSE IF obj.t = "timedelta" THEN Return(JsonString(timedelta_str(obj)))
        ELSE IF obj.t = "datetime" THEN Return(JsonString(strftime_datetime(obj)))
        ELSE IF obj.t \in {"date", "datetime"} THEN Return(JsonString(strftime_date(obj)))
        ELSE IF obj.t = "np.bool_" THEN Return(JsonBool(obj.b))
        ELSE IF obj.t \in SignedInts THEN Return(JsonInt(obj.i))
        ELSE IF obj.t \in Floats THEN Return(JsonFloat(obj.milli))
        ELSE Return(JsonString(py_str(obj)))

Base64Alphabet ==
    <<"A", "B", "C", "D", "E", "F", "G", "H", "I", "J", "K", "L", "M",
      "N", "O", "P", "Q", "R", "S", "T", "U", "V", "W", "X", "Y", "Z",
      "a", "b", "c", "d", "e", "f", "g", "h", "i", "j", "k", "l", "m",
      "n", "o", "p", "q", "r", "s", "t", "u", "v", "w", "x", "y", "z",
      "0", "1", "2", "3", "4", "5", "6", "7", "8", "9", "+", "/">>

B64(sextet) == Base64Alphabet[sextet + 1]

\* base64.b64encode(b).decode('utf-8')
RECURSIVE b64encode(_)
b64encode(b) ==
    IF Len(b) = 0 THEN <<>>
    ELSE IF Len(b) = 1
    THEN <<B64(b[1] \div 4), B64((b[1] % 4) * 16), "=", "=">>
    ELSE IF Len(b) = 2
    THEN <<B64(b[1] \div 4), B64((b[1] % 4) * 16 + b[2] \div 16),
           B64((b[2] % 16) * 4), "=">>
    ELSE <<B64(b[1] \div 4), B64((b[1] % 4) * 16 + b[2] \div 16),
           B64((b[2] % 16) * 4 + b[3] \div 64), B64(b[3] % 64)>>
         \o b64encode(SubSeq(b, 4, Len(b)))

ByteSamples == {0, 97, 98, 99, 255}

\* objects handed to json_serialiser
SerialiserInputs ==
         [t : {"bytes", "bytearray"}, items : SeqsUpTo(ByteSamples, MaxBytes)]
    \cup {[t |-> "NoneType"], [t |-> "str", chars |-> <<"a", "b">>],
          [t |-> "np.int8", i |-> 0], [t |-> "list", items |-> <<>>]}

(* json_serialiser: the raise statement first evaluates str + type, which  *)
(* Python rejects with a TypeError before any ValueError is built          *)

json_serialiser(byte_obj) ==
    IF byte_obj.t \in {"bytes", "bytearray"}
    THEN Return(JsonString(b64encode(byte_obj.items)))
    ELSE Raise("TypeError")

CodecArgs ==
    [fn : {"default"}, obj : DefaultInputs, libc : CLibraries]
        \cup [fn : {"json_serialiser"}, obj : SerialiserInputs]

InitCodec ==
    /\ environ = EmptyDict
    /\ registry = RegistryDown
    /\ factory = NoFactory
    /\ arg \in CodecArgs
    /\ result = NoResult
    /\ earlier = NoEarlier

\* a value about to leave the process is encoded
Encode ==
    /\ arg.fn = "default"
    /\ result' = [op |-> "default", out |-> CustomJSONEncoder_default(arg.obj)]
    /\ UNCHANGED <<environ, registry, factory, arg, earlier>>

\* an artifact is exported
Serialise ==
    /\ arg.fn = "json_serialiser"
    /\ result' = [op |-> "json_serialiser", out |-> json_serialiser(arg.obj)]
    /\ UNCHANGED <<environ, registry, factory, arg, earlier>>

NextCodec ==
    \/ Encode
    \/ Serialise

SpecCodec == InitCodec /\ [][NextCodec]_vars

----------------------------------------------------------------------------
(* api/http/namespaces/projects.py: POST /<project_name>/models/<model_name>/predict *)

\* "SUPERSCRIPT TWO" stands for the one character U+00B2, a digit to
\* str.isdigit but not to int
NameChars == {"m", "7", ".", "SUPERSCRIPT TWO"}
ModelNames == SeqsUpTo(NameChars, MaxNameLen) \ {<<>>}
ProjectNames == {"mindsdb", "stale", "nope"}
\* projects that exist; the data source of "stale" cannot be obtained
KnownProjects == {"mindsdb", "stale"}

\* session.datahub.get(name): the project's data node, or None
datahub_get(name) ==
    IF name = "mindsdb" THEN [t |-> "ProjectDataNode", project |-> name] ELSE None

\* str.split('.')
RECURSIVE split(_)
split(chars) ==
    IF \A n \in DOMAIN chars : chars[n] # "."
    THEN <<chars>>
    ELSE LET dot == CHOOSE n \in DOMAIN chars :
                      chars[n] = "." /\ \A m \in 1..(n - 1) : chars[m] # "."
         IN  <<SubSeq(chars, 1, dot - 1)>> \o split(SubSeq(chars, dot + 1, Len(chars)))

\* '.'.join(parts)
RECURSIVE join(_)
join(parts) ==
    IF Len(parts) = 0 THEN <<>>
    ELSE IF Len(parts) = 1 THEN parts[1]
    ELSE parts[1] \o <<".">> \o join(Tail(parts))

\* characters of Unicode category No that str.isdigit accepts and int rejects
OtherDigits == {"SUPERSCRIPT TWO"}

\* str.isdigit
isdigit(chars) ==
    /\ Len(chars) > 0
    /\ \A n \in DOMAIN chars :
         \/ \E d \in DOMAIN DigitChars : DigitChars[d] = chars[n]
         \/ chars[n] \in OtherDigits

\* whether int(chars) accepts the string: decimal digits only
int_accepts(chars) ==
    /\ Len(chars) > 0
    /\ \A n \in DOMAIN chars : \E d \in DOMAIN DigitChars : DigitChars[d] = chars[n]

\* int(chars) for a string of decimal digits
RECURSIVE int(_)
int(chars) ==
    IF Len(chars) = 0 THEN 0
    ELSE 10 * int(SubSeq(chars, 1, Len(chars) - 1))
         + (CHOOSE d \in 0..9 : DigitChars[d + 1] = chars[Len(chars)])

\* abort(code, message)
Abort(code) == [exc |-> "HTTPException", code |-> code]

(* ModelPredict.post; the outcome also lists the predict calls made *)

Predicted(out, calls) == SetItem(out, "predicted", calls)

ModelPredict_post(project_name, model_name, json) ==
    LET parts == split(model_name)
        versioned == Len(parts) > 1 /\ isdigit(parts[Len(parts)])
        version == IF versioned THEN Integer(int(parts[Len(parts)])) ELSE None
        name == IF versioned THEN join(SubSeq(parts, 1, Len(parts) - 1)) ELSE model_name
    IN  IF versioned /\ ~int_accepts(parts[Len(parts)])
        THEN Predicted(Raise("ValueError"), <<>>)
        ELSE IF "data" \notin DOMAIN json THEN Predicted(Raise("KeyError"), <<>>)
        ELSE
        LET params == IF "params" \in DOMAIN json THEN json["params"] ELSE None
            project_datanode == datahub_get(project_name)
        IN  IF project_datanode = None THEN Predicted(Abort(500), <<>>)
            ELSE Predicted(Return([status |-> 200, records |-> json["data"]]),
                           << [datanode |-> project_datanode, model_name |-> name,
                               data |-> json["data"], version |-> version,
                               params |-> params] >>)

\* request bodies
Bodies ==
    {EmptyDict,
     [k \in {"data"} |-> Str("rows")],
     [k \in {"data", "params"} |-> IF k = "data" THEN Str("rows") ELSE Str("opts")]}

HttpArgs ==
    [fn : {"post"}, project_name : ProjectNames, model_name : ModelNames, json : Bodies]

InitHttp ==
    /\ environ = EmptyDict
    /\ registry = RegistryDown
    /\ factory = NoFactory
    /\ arg \in HttpArgs
    /\ result = NoResult
    /\ earlier = NoEarlier

\* the HTTP layer routes a predict request to the resource
Post ==
    /\ arg.fn = "post"
    /\ result' = [op |-> "post",
                  out |-> ModelPredict_post(arg.project_name, arg.model_name, arg.json)]
    /\ UNCHANGED <<environ, registry, factory, arg, earlier>>

NextHttp ==
    \/ Post

SpecHttp == InitHttp /\ [][NextHttp]_vars

----------------------------------------------------------------------------
(* What the configuration says about an engine, read off the environment  *)
(* and the registry directly                                               *)

RegistryConfigured ==
    "REGISTRY_URL" \in DOMAIN environ /\ environ["REGISTRY_URL"] # ""

RegistryAnswers == RegistryConfigured /\ registry.up

RegistryBodyLists(engine) ==
    engine \in DOMAIN registry.body /\ Len(registry.body[engine]) > 0

RegistryYields(engine) == RegistryAnswers /\ RegistryBodyLists(engine)

FallbackSet ==
    {"MINDSDB_ML_SERVICE_HOST", "MINDSDB_ML_SERVICE_PORT"} \subseteq DOMAIN environ

FallbackUnset ==
    {"MINDSDB_ML_SERVICE_HOST", "MINDSDB_ML_SERVICE_PORT"} \cap DOMAIN environ = {}

Called == result.op = "__call__"
Returned == result.out.exc = ""
IsLocal == Returned /\ result.out.value.kind = "local"
IsProxy == Returned /\ result.out.value.kind = "proxy"
ProxyTo(host, port) ==
    IsProxy /\ result.out.value.host = host /\ result.out.value.port = port

\* C1: whenever the engine has a resolvable remote endpoint, from the
\* registry or else from the fallback host and port, dispatch returns a
\* proxy bound to exactly that host and port and never a local instance.
C1_ProxyWhenResolvable ==
    Called =>
      /\ RegistryYields(result.engine) =>
           ProxyTo(registry.body[result.engine][1].host,
                   registry.body[result.engine][1].port)
      /\ (~RegistryYields(result.engine) /\ FallbackSet) =>
           ProxyTo(Str(environ["MINDSDB_ML_SERVICE_HOST"]),
                   Str(environ["MINDSDB_ML_SERVICE_PORT"]))

\* C2: with REGISTRY_URL absent and no fallback host or port, dispatch
\* returns a local instance of the factory's handler_class, the engine's
\* registered implementation, and issues no registry lookup.
C2_LocalWhenUnconfigured ==
    (Called /\ "REGISTRY_URL" \notin DOMAIN environ /\ FallbackUnset) =>
      /\ IsLocal
      /\ result.out.value.class = factory.handler_class
      /\ result.out.value.class = EngineRegistration(result.engine)
      /\ result.out.requests = <<>>

C2_Witness ==
    /\ Called /\ "REGISTRY_URL" \notin DOMAIN environ /\ FallbackUnset
    /\ IsLocal /\ result.out.value.class = TPOTHandler
    /\ registry.up /\ RegistryBodyLists("TPOT")

C4_FirstCandidateOrNotFound ==
    (result.op = "discover_service" /\ RegistryAnswers) =>
      /\ Returned
      /\ IF RegistryBodyLists(result.engine)
         THEN result.out.value = registry.body[result.engine][1]
         ELSE ~Truthy(result.out.value)

\* C5: dispatch for an engine that the registry response, the fallback
\* configuration and the local registration table all lack fails with a
\* ConfigurationError.
C5_UnknownEngineConfigurationError ==
    ( /\ result.op \in {"__init__", "__call__"}
      /\ EngineRegistration(result.engine) = NoClass
      /\ ~RegistryBodyLists(result.engine)
      /\ ~FallbackSet ) =>
      result.out.exc = "ConfigurationError"

\* the implementation identity an instance exposes: its class's name and module
Identity(instance) ==
    [__name__ |-> instance.class.__name__, __module__ |-> instance.class.__module__]

\* C9 as stated: the identity read from a handler that dispatch returned is
\* that of the engine's registered implementation, whether the handler is a
\* local instance or a remote proxy.
C9_SameIdentityOnBothPaths ==
    (Called /\ Returned) =>
      Identity(result.out.value) =
        [__name__ |-> factory.handler_class.__name__,
         __module__ |-> factory.handler_class.__module__]

\* C9 amended: the factory exposes the name and module of the registered
\* implementation whichever path dispatch takes; a local instance has that
\* identity, a remote proxy is an MLClientGRPC that is told the engine name.
C9_FactoryCarriesIdentity ==
    /\ factory # NoFactory =>
         /\ factory.__name__ = factory.handler_class.__name__
         /\ factory.__module__ = factory.handler_class.__module__
         /\ factory.__name__ # factory.client_class.__name__
    /\ IF Called /\ IsLocal
       THEN Identity(result.out.value) =
              [__name__ |-> factory.__name__, __module__ |-> factory.__module__]
       ELSE TRUE
    /\ IF Called /\ IsProxy
       THEN /\ Identity(result.out.value) =
                 [__name__ |-> MLClientGRPC.__name__,
                  __module__ |-> MLClientGRPC.__module__]
            /\ result.out.value.kwargs["engine"] = Str(factory.engine)
       ELSE TRUE

C9_Witness ==
    /\ Called /\ IsProxy
    /\ factory.__name__ = "TPOTHandler"
    /\ result.out.value.kwargs["engine"] = Str("TPOT")

\* the fallback value of an environment variable as the proxy would hold it
Fallback(key) == IF key \in DOMAIN environ THEN Str(environ[key]) ELSE None

\* C11: resolution is first match wins: when the registry yields an
\* endpoint the proxy is bound to the registry's host and port whatever the
\* fallback variables hold, and a handler is bound to a fallback value only
\* when discovery yielded nothing.
C11_RegistryBeforeFallback ==
    Called =>
      /\ RegistryYields(result.engine) =>
           /\ ProxyTo(registry.body[result.engine][1].host,
                      registry.body[result.engine][1].port)
           /\ result.out.value.host # Fallback("MINDSDB_ML_SERVICE_HOST")
           /\ result.out.value.port # Fallback("MINDSDB_ML_SERVICE_PORT")
      /\ ( /\ IsProxy
           /\ \/ result.out.value.host = Fallback("MINDSDB_ML_SERVICE_HOST")
              \/ result.out.value.port = Fallback("MINDSDB_ML_SERVICE_PORT") ) =>
           /\ ~RegistryYields(result.engine)
           /\ ProxyTo(Fallback("MINDSDB_ML_SERVICE_HOST"),
                      Fallback("MINDSDB_ML_SERVICE_PORT"))

C11_Witness ==
    /\ Called /\ RegistryYields(result.engine) /\ FallbackSet
    /\ Len(registry.body[result.engine]) = 2
    /\ registry.body[result.engine][1] # registry.body[result.engine][2]
    /\ ProxyTo(registry.body[result.engine][1].host,
               registry.body[result.engine][1].port)

\* what the configuration of the moment, and nothing else, makes of a
\* dispatch: an exception when the registry answers with entries but has no
\* candidate for the engine, else the registry's first candidate, else the
\* fallback host and port, else the local implementation
RoutedByConfiguration ==
    IF RegistryAnswers /\ Truthy(registry.body) /\ ~RegistryBodyLists(result.engine)
    THEN ~Returned
    ELSE IF RegistryYields(result.engine)
    THEN ProxyTo(registry.body[result.engine][1].host,
                 registry.body[result.engine][1].port)
    ELSE IF FallbackSet
    THEN ProxyTo(Fallback("MINDSDB_ML_SERVICE_HOST"),
                 Fallback("MINDSDB_ML_SERVICE_PORT"))
    ELSE IsLocal /\ result.out.value.class = factory.handler_class

\* C12: the endpoint is never cached: however dispatches are interleaved
\* with changes of the registry response and of the environment, every
\* dispatch is routed by the registry response and the environment of its
\* own moment, and it leaves the factory's fields as they were.
C12_ResolvedPerCall ==
    [][ (result'.op = "__call__" /\ result' # result) =>
          /\ factory' = factory
          /\ environ' = environ /\ registry' = registry
          /\ RoutedByConfiguration' ]_vars

\* a dispatch routed locally after an earlier one, under another
\* configuration, had been routed to a registry endpoint
C12_Witness ==
    /\ Called /\ IsLocal
    /\ earlier.kind = "proxy" /\ earlier.host = Str("10.0.0.5")
    /\ RegistryConfigured /\ ~registry.up /\ ~FallbackSet

\* C13: a proxy that dispatch returns carries the HandlerIdentity of the
\* call: the factory's engine name, the integration id of the first storage
\* handle and the predictor id of the second, whatever extra arguments were
\* passed, one named engine included; the other extra arguments pass through.
C13_ProxyCarriesHandlerIdentity ==
    (Called /\ IsProxy) =>
      /\ result.out.value.kwargs["engine"] = Str(factory.engine)
      /\ result.out.value.integration_id = result.engine_storage.integration_id
      /\ result.out.value.predictor_id = result.model_storage.predictor_id
      /\ \A k \in DOMAIN result.kwargs \ {"engine"} :
           /\ k \in DOMAIN result.out.value.kwargs
           /\ result.out.value.kwargs[k] = result.kwargs[k]

C13_Witness ==
    /\ Called /\ IsProxy
    /\ "engine" \in DOMAIN result.kwargs
    /\ result.kwargs["engine"] # Str(factory.engine)
    /\ result.out.value.kwargs["engine"] = Str("TPOT")
    /\ result.out.value.integration_id = 2
    /\ result.out.value.predictor_id = 7

\* discovery returns nothing: no registry configured, the registry
\* unreachable, or its answer empty
DiscoveryEmpty == ~RegistryConfigured \/ ~registry.up \/ ~Truthy(registry.body)

\* exactly one of the fallback host and port is set
FallbackPartial == ~FallbackSet /\ ~FallbackUnset

\* C16: when discovery yields nothing and the fallback configuration has
\* only one of host and port, dispatch returns the local instance, given
\* the storage handles and extra arguments unchanged, and raises nothing; a
\* proxy is built only when both a host and a port were obtained.
C16_PartialFallbackIsLocal ==
    Called =>
      /\ (DiscoveryEmpty /\ FallbackPartial) =>
           /\ IsLocal
           /\ result.out.value =
                [kind |-> "local", class |-> factory.handler_class,
                 engine_storage |-> result.engine_storage,
                 model_storage |-> result.model_storage,
                 kwargs |-> result.kwargs]
      /\ IsProxy =>
           /\ result.out.value.host # None /\ result.out.value.port # None
           /\ RegistryYields(result.engine) \/ FallbackSet

C16_Witness ==
    /\ Called /\ IsLocal
    /\ RegistryAnswers /\ ~Truthy(registry.body)
    /\ "MINDSDB_ML_SERVICE_HOST" \in DOMAIN environ
    /\ "MINDSDB_ML_SERVICE_PORT" \notin DOMAIN environ

----------------------------------------------------------------------------
(* Claims about the codecs, under SpecCodec *)

\* C6: CustomJSONEncoder.default is total: for every input, array-like
\* and sequence-like values included, it returns an encoded value and
\* never raises.
C6_DefaultNeverRaises ==
    result.op = "default" => result.out.exc = ""

\* the sextet a Base64 character stands for; padding stands for 0
Sextet(c) ==
    IF c = "=" THEN 0 ELSE (CHOOSE n \in DOMAIN Base64Alphabet : Base64Alphabet[n] = c) - 1

\* the bytes a Base64 text stands for
RECURSIVE Base64Bytes(_)
Base64Bytes(chars) ==
    IF Len(chars) = 0 THEN <<>>
    ELSE LET bits == Sextet(chars[1]) * 262144 + Sextet(chars[2]) * 4096
                       + Sextet(chars[3]) * 64 + Sextet(chars[4])
             three == <<bits \div 65536, (bits \div 256) % 256, bits % 256>>
             kept == IF chars[3] = "=" THEN 1 ELSE IF chars[4] = "=" THEN 2 ELSE 3
         IN  SubSeq(three, 1, kept) \o Base64Bytes(SubSeq(chars, 5, Len(chars)))

\* C7: json_serialiser encodes every byte sequence to its Base64 text and
\* rejects every other input with a ValueError that names the input's type.
C7_Base64OrValueError ==
    result.op = "json_serialiser" =>
      IF arg.obj.t \in {"bytes", "bytearray"}
      THEN /\ result.out.exc = ""
           /\ result.out.value.j = "string"
           /\ Len(result.out.value.chars) = 4 * ((Len(arg.obj.items) + 2) \div 3)
           /\ Base64Bytes(result.out.value.chars) = arg.obj.items
      ELSE result.out.exc = "ValueError"

\* C8: an integer wrapper of any width, signed or unsigned, is encoded to
\* a native integer of the same value, never to a string.
C8_IntegerWrapperToInteger ==
    (result.op = "default" /\ arg.obj.t \in SignedInts \cup UnsignedInts) =>
      /\ result.out.exc = ""
      /\ result.out.value = JsonInt(arg.obj.i)

----------------------------------------------------------------------------
(* Claims about the HTTP predict operation, under SpecHttp *)

\* C10: predict answers 404 for an unknown project and 500 when the
\* project's data source cannot be obtained, and runs no prediction in
\* either case.
C10_UnknownProject404 ==
    (result.op = "post" /\ "data" \in DOMAIN arg.json) =>
      /\ arg.project_name \notin KnownProjects =>
           result.out = Predicted(Abort(404), <<>>)
      /\ (arg.project_name \in KnownProjects /\ datahub_get(arg.project_name) = None) =>
           result.out = Predicted(Abort(500), <<>>)

\* the characters are decimal digits that spell the number n
Spells(chars, n) ==
    /\ Len(chars) > 0
    /\ \A k \in DOMAIN chars : \E d \in DOMAIN DigitChars : DigitChars[d] = chars[k]
    /\ int(chars) = n

\* text is YYYY-MM-DD for the date of obj
IsDateText(text, obj) ==
    /\ Len(text) = 10
    /\ Spells(SubSeq(text, 1, 4), obj.year)
    /\ text[5] = "-" /\ Spells(SubSeq(text, 6, 7), obj.month)
    /\ text[8] = "-" /\ Spells(SubSeq(text, 9, 10), obj.day)

\* text is YYYY-MM-DD HH:MM:SS.ffffff for the timestamp obj
IsTimestampText(text, obj) ==
    /\ Len(text) = 26
    /\ IsDateText(SubSeq(text, 1, 10), obj)
    /\ text[11] = " " /\ Spells(SubSeq(text, 12, 13), obj.hour)
    /\ text[14] = ":" /\ Spells(SubSeq(text, 15, 16), obj.minute)
    /\ text[17] = ":" /\ Spells(SubSeq(text, 18, 19), obj.second)
    /\ text[20] = "." /\ Spells(SubSeq(text, 21, 26), obj.microsecond)

\* C14: default applies its rules in order, first match wins: a
\* not-a-number value encodes to null even when it is a floating-point
\* wrapper; a timestamp always encodes to YYYY-MM-DD HH:MM:SS.ffffff with
\* exactly six fractional digits, never to the date-only form; a calendar
\* date without time encodes to YYYY-MM-DD.
C14_RulesInOrder ==
    result.op = "default" =>
      /\ (arg.obj.t \in Floats \cup {"float"} /\ arg.obj.nan) =>
           result.out = Return(JsonNull)
      /\ arg.obj.t = "datetime" =>
           /\ result.out.exc = "" /\ result.out.value.j = "string"
           /\ IsTimestampText(result.out.value.chars, arg.obj)
      /\ arg.obj.t = "date" =>
           /\ result.out.exc = "" /\ result.out.value.j = "string"
           /\ IsDateText(result.out.value.chars, arg.obj)

\* position of the last dot of a name, 0 when it has none
LastDot(name) ==
    IF \A n \in DOMAIN name : name[n] # "." THEN 0
    ELSE CHOOSE n \in DOMAIN name :
           name[n] = "." /\ \A m \in (n + 1)..Len(name) : name[m] # "."

\* the name ends in a dot followed by decimal digits only
HasVersionSuffix(name) ==
    /\ LastDot(name) > 0
    /\ LastDot(name) < Len(name)
    /\ \A n \in (LastDot(name) + 1)..Len(name) :
         \E d \in DOMAIN DigitChars : DigitChars[d] = name[n]

\* C15: a model name whose last dot-separated part is all digits is passed
\* to predict without that part, together with the part as integer version;
\* any other name is passed on unchanged with no version; a name of digits
\* only, without a dot, is never taken for a version.
C15_VersionSuffixParsed ==
    ( /\ result.op = "post"
      /\ "data" \in DOMAIN arg.json
      /\ datahub_get(arg.project_name) # None ) =>
      /\ result.out.exc = ""
      /\ Len(result.out.predicted) = 1
      /\ IF HasVersionSuffix(arg.model_name)
         THEN /\ result.out.predicted[1].model_name =
                   SubSeq(arg.model_name, 1, LastDot(arg.model_name) - 1)
              /\ result.out.predicted[1].version =
                   Integer(int(SubSeq(arg.model_name, LastDot(arg.model_name) + 1,
                                      Len(arg.model_name))))
         ELSE /\ result.out.predicted[1].model_name = arg.model_name
              /\ result.out.predicted[1].version = None

====
